---- MODULE Spec2Model ----
(***************************************************************************)
(* The frame timeline of animation.py: AnimationManager.draw, the blob     *)
(* oscillators it advances per slot and the rule duty-cycles it advances   *)
(* per grid cell, with the calls it makes on the drawing surface.          *)
(*                                                                         *)
(* Numbers.  Python floats are modelled exactly, as rationals:             *)
(*   - grid ratios (0, 0.22, 0.25, 0.5, 0.75, 0.78, 1) are held in         *)
(*     hundredths (RatioDen);                                              *)
(*   - the seconds stored in rulesCycles are held in units of 1/SecDen     *)
(*     second, so that durations of 0, 1, 2, ... frames can be configured; *)
(*   - a value of parametricBlend is a pair <<numerator, denominator>>.    *)
(* For the values used here the float computations of the source are exact *)
(* (k/24*24 = k, 1200*0.22 = 264.0, k/C <= 0.5 iff 2k <= C).               *)
(***************************************************************************)
EXTENDS Integers, Sequences, FiniteSets, TLC

\* ------------------------------------------------------------- constants
CANVAS_SIZE == 1200
FPS == 24
FRAMES == FPS * 12

\* Fixed-point denominators of the model's rationals.
RatioDen == 100
SecDen == FPS

\* ---------------------------------------------------------------- bounds
\* Test grids hold the off-durations b, b+1, b+2 frames down their rows and
\* the on-durations c, c+1, c+2 frames along their columns, for all bases
\* b, c in 0 .. MaxDurBase; test cycle triples are <<b, b+1, b+2>> frames for
\* the bases b in 0 .. MaxCycleBase.
MaxDurBase == 3
MaxCycleBase == 2

\* -------------------------------------------------------------- geometry
\* lerp(a, b, factor), factor in hundredths.
lerp(a, b, factor) == a + ((b - a) * factor) \div RatioDen

\* multiLerp over two pairs.
multiLerp(a, b, factor) ==
    << lerp(a[1], b[1], factor), lerp(a[2], b[2], factor) >>

\* Mutant: the sign of t in the denominator, sqt / (2*(sqt + t) + 1).
parametricBlendPlus(p, q) == << p * p, 2 * (p * p + p * q) + q * q >>

\* parametricBlend(t) for t = p/q, as <<numerator, denominator>>:
\*   sqt = t*t ; sqt / (2*(sqt - t) + 1)  =  p^2 / (2*(p^2 - p*q) + q^2)
parametricBlend(p, q) == << p * p, 2 * (p * p - p * q) + q * q >>

\* coordinates(xRatio, yRatio), ratios in hundredths.
coordinates(xRatio, yRatio) ==
    LET lb == multiLerp(<<0, 0>>, <<CANVAS_SIZE, CANVAS_SIZE>>, 22)
        rt == multiLerp(<<0, 0>>, <<CANVAS_SIZE, CANVAS_SIZE>>, 78)
    IN  << lerp(lb[1], rt[1], xRatio), lerp(lb[2], rt[2], yRatio) >>

\* The blob slots, in the order of the dict literals.
SlotOrder == << "lft", "mid", "rgt" >>
Slots == { SlotOrder[n] : n \in 1..Len(SlotOrder) }

\* The grid ratios [0, 0.5, 1] enumerated by dots() and by the rule loop.
GridRatios == << 0, 50, 100 >>

SlotX(pos) == CASE pos = "lft" -> 0 [] pos = "mid" -> 50 [] OTHER -> 100

positionToLocationFactory ==
    [ pos \in Slots |->
        [ x         |-> SlotX(pos),
          y         |-> 75,
          nextY     |-> 25,
          range     |-> << coordinates(SlotX(pos), 50), coordinates(SlotX(pos), 100) >>,
          nextRange |-> << coordinates(SlotX(pos), 0), coordinates(SlotX(pos), 50) >> ] ]

\* AnimationManager.diameter and .radius (db.width() is CANVAS_SIZE).
diameter == CANVAS_SIZE \div 4
radius == diameter \div 2

\* ------------------------------------------------------- configurations
\* n seconds, as stored in rulesCycles.
Sec(n) == n * SecDen

Cell(off, on) == << Sec(off), Sec(on), FALSE >>

\* The three AnimationManager constructions of the script.
Rules1 ==
    << << Cell(4, 2), Cell(3, 2), Cell(4, 3) >>,
       << Cell(2, 2), Cell(4, 2), Cell(1, 3) >>,
       << Cell(3, 1), Cell(3, 3), Cell(4, 2) >> >>
Cycles1 == [ pos \in Slots |->
    CASE pos = "lft" -> 24 * 2 [] pos = "mid" -> 24 * 3 [] OTHER -> 24 ]

Rules2 ==
    << << Cell(3, 1), Cell(3, 3), Cell(4, 2) >>,
       << Cell(2, 2), Cell(4, 2), Cell(1, 3) >>,
       << Cell(4, 2), Cell(3, 2), Cell(4, 3) >> >>
Cycles2 == [ pos \in Slots |->
    CASE pos = "lft" -> 24 * 1 [] pos = "mid" -> 24 * 4 [] OTHER -> 24 ]

Rules3 ==
    << << Cell(3, 2), Cell(4, 2), Cell(4, 2) >>,
       << Cell(3, 3), Cell(4, 3), Cell(4, 2) >>,
       << Cell(2, 2), Cell(3, 3), Cell(1, 3) >> >>
Cycles3 == [ pos \in Slots |->
    CASE pos = "lft" -> 24 * 2 [] pos = "mid" -> 24 * 3 [] OTHER -> 24 * 4 ]

ShippedConfigs ==
    { [ rules |-> Rules1, cycles |-> Cycles1 ],
      [ rules |-> Rules2, cycles |-> Cycles2 ],
      [ rules |-> Rules3, cycles |-> Cycles3 ] }

\* The end-to-end scenarios: rule cells 2 s off / 1 s on (48 / 24 frames)
\* that start off, blob slots of cycle length 24.
ScenarioConfig ==
    [ rules  |-> [ j \in 1..3 |-> [ i \in 1..3 |-> Cell(2, 1) ] ],
      cycles |-> [ pos \in Slots |-> 24 ] ]

\* Short durations, in frames: (offBase + j) / FPS seconds off and
\* (onBase + i) / FPS seconds on in cell (j, i), every switch initially sw.
TestRules(offBase, onBase, sw) ==
    [ j \in 1..3 |-> [ i \in 1..3 |->
        << offBase + (j - 1), onBase + (i - 1), sw >> ] ]

TestCycles(base) == [ pos \in Slots |->
    CASE pos = "lft" -> base [] pos = "mid" -> base + 1 [] OTHER -> base + 2 ]

TestConfigs ==
    { [ rules |-> TestRules(ob, nb, sw), cycles |-> TestCycles(cb) ] :
        ob \in 0..MaxDurBase, nb \in 0..MaxDurBase,
        sw \in BOOLEAN, cb \in 0..MaxCycleBase }

Configs == ShippedConfigs \cup { ScenarioConfig } \cup TestConfigs

\* The three constructions of the script, each followed by its draw.
MainScript ==
    << [ rules |-> Rules1, cycles |-> Cycles1 ],
       [ rules |-> Rules2, cycles |-> Cycles2 ],
       [ rules |-> Rules3, cycles |-> Cycles3 ] >>

\* Mutant: a class-level default, one dict shared by every instance.
sharedPositionToLocation(earlierDicts) ==
    IF earlierDicts = << >>
    THEN positionToLocationFactory
    ELSE earlierDicts[Len(earlierDicts)]

\* The positionToLocation of an instance built without that argument:
\* field(default_factory=...) calls the factory anew, whatever the dicts of
\* the earlier instances have become.
defaultPositionToLocation(earlierDicts) == positionToLocationFactory

\* ----------------------------------------------------------------- state
VARIABLES
    pc,                 \* where draw() is: "loop", "blobs", "dots", "rules",
                        \* "done" (after saveImage), "error" (an exception left draw)
    eachFrame,          \* the loop variable of draw
    slotIdx,            \* position in locationToCycle.items()
    cellIdx,            \* position in the rule loops: 3 * j + i
    rulesCycles,        \* AnimationManager.rulesCycles: [off s, on s, switch]
    locationToCycle,    \* AnimationManager.locationToCycle
    positionToLocation, \* AnimationManager.positionToLocation
    calls,              \* the drawing calls made on the current page, in order
    pages,              \* number of db.newPage calls so far
    saved,              \* number of db.saveImage calls so far
    configured,         \* history: the constructor's arguments
    start,              \* history: rulesCycles and positionToLocation as they
                        \* were when the current frame began
    phaseStart,         \* history: per cell, the first frame of its current
                        \* on/off phase, -1 while it is in its initial phase
    lastPhase,          \* history: per cell, the last phase it completed of
                        \* those it entered during the run (len 0: none yet)
    earlier             \* the positionToLocation of the instances the script
                        \* built before this one, as their runs left them

vars == << pc, eachFrame, slotIdx, cellIdx, rulesCycles, locationToCycle,
           positionToLocation, calls, pages, saved, configured, start,
           phaseStart, lastPhase, earlier >>

\* Mutant: the dots drawn before the blobs.
StageAfterDotsFirst(stage) ==
    CASE stage = "initFrame" -> "dots"
      [] stage = "dots" -> "blobs"
      [] stage = "blobs" -> "rules"
      [] OTHER -> "loop"

\* The statements of the loop body of draw, in program order.
StageAfter(stage) ==
    CASE stage = "initFrame" -> "blobs"
      [] stage = "blobs" -> "dots"
      [] stage = "dots" -> "rules"
      [] OTHER -> "loop"

Cells == 0..8
RowOf(c) == (c \div 3) + 1
ColOf(c) == (c % 3) + 1

Init ==
    /\ \E cfg \in Configs :
        /\ rulesCycles = cfg.rules
        /\ locationToCycle = cfg.cycles
        /\ configured = cfg
        /\ start = [ rules |-> cfg.rules, locs |-> positionToLocationFactory ]
    /\ earlier = << >>
    /\ positionToLocation = defaultPositionToLocation(earlier)
    /\ pc = "loop"
    /\ eachFrame = 0
    /\ slotIdx = 1
    /\ cellIdx = 0
    /\ calls = << >>
    /\ pages = 0
    /\ saved = 0
    /\ phaseStart = [ c \in Cells |-> -1 ]
    /\ lastPhase = [ c \in Cells |-> [ on |-> FALSE, len |-> 0 ] ]

\* ------------------------------------------------------------- initFrame
\* newPage, frameDuration, white background (the assert on a square page
\* holds: the page is CANVAS_SIZE x CANVAS_SIZE).
initFrame ==
    /\ pc = "loop"
    /\ eachFrame < FRAMES
    /\ calls' = << [ op |-> "newPage", w |-> CANVAS_SIZE, h |-> CANVAS_SIZE ],
                   [ op |-> "rect", fill |-> "WHITE", cell |-> -1,
                     w |-> CANVAS_SIZE, h |-> CANVAS_SIZE ] >>
    /\ pages' = pages + 1
    /\ pc' = StageAfter("initFrame")
    /\ slotIdx' = 1
    /\ cellIdx' = 0
    /\ start' = [ rules |-> rulesCycles, locs |-> positionToLocation ]
    /\ UNCHANGED << eachFrame, rulesCycles, locationToCycle, earlier,
                    positionToLocation, saved, configured, phaseStart,
                    lastPhase >>

\* ------------------------------------------------------------------ blob
\* Mutant: the test of spring (completion < 0.5) used in blob.
InGrowthHalfStrict(k, cycle) == 2 * k < cycle

\* completion <= 0.5, for completion = k / cycle.
InGrowthHalf(k, cycle) == 2 * k <= cycle

\* AnimationManager.blob(startPt, endPt, k / cycle): the roundedRect call of
\* each branch. y and h are rationals over the denominator of the blend
\* ratio.
blobGrow(startPt, endPt, k, cycle) ==
    LET ratio == parametricBlend(2 * k, cycle)
    IN  [ op |-> "roundedRect", branch |-> "grow", ratio |-> ratio,
          x |-> startPt[1] - radius,
          y |-> << (startPt[2] - radius) * ratio[2], ratio[2] >>,
          w |-> diameter,
          h |-> << diameter * ratio[2] + (endPt[2] - startPt[2]) * ratio[1],
                   ratio[2] >>,
          r |-> radius ]

\* Mutant: the shrinking height taken with ratio instead of 1 - ratio.
blobShrinkByRatio(startPt, endPt, k, cycle) ==
    LET ratio == parametricBlend(2 * k - cycle, cycle)
    IN  [ op |-> "roundedRect", branch |-> "shrink", ratio |-> ratio,
          x |-> startPt[1] - radius,
          y |-> << (startPt[2] - radius) * ratio[2]
                     + (endPt[2] - startPt[2]) * ratio[1], ratio[2] >>,
          w |-> diameter,
          h |-> << diameter * ratio[2] + (endPt[2] - startPt[2]) * ratio[1],
                   ratio[2] >>,
          r |-> radius ]

blobShrink(startPt, endPt, k, cycle) ==
    LET ratio == parametricBlend(2 * k - cycle, cycle)
    IN  [ op |-> "roundedRect", branch |-> "shrink", ratio |-> ratio,
          x |-> startPt[1] - radius,
          y |-> << (startPt[2] - radius) * ratio[2]
                     + (endPt[2] - startPt[2]) * ratio[1], ratio[2] >>,
          w |-> diameter,
          h |-> << diameter * ratio[2]
                     + (endPt[2] - startPt[2]) * (ratio[2] - ratio[1]),
                   ratio[2] >>,
          r |-> radius ]

blob(startPt, endPt, k, cycle) ==
    IF InGrowthHalf(k, cycle)
    THEN blobGrow(startPt, endPt, k, cycle)
    ELSE blobShrink(startPt, endPt, k, cycle)

\* Mutant: the swap taken at the last frame of the cycle.
SwapDueAtEnd(f, cycle) == f % cycle = cycle - 1

\* eachFrame % cycle == 0
SwapDue(f, cycle) == f % cycle = 0

\* Mutant: only the ranges are exchanged.
SwappedRangeOnly(loc) ==
    [ loc EXCEPT !.range = loc.nextRange, !.nextRange = loc.range ]

\* Mutant: only y and nextY are exchanged.
SwappedYOnly(loc) ==
    [ loc EXCEPT !.y = loc.nextY, !.nextY = loc.y ]

\* The two tuple swaps of a slot's entry.
Swapped(loc) ==
    [ loc EXCEPT !.y = loc.nextY, !.nextY = loc.y,
                 !.range = loc.nextRange, !.nextRange = loc.range ]

\* The record of a blob call: the fill colour's location and opacity, the
\* arguments of blob and the roundedRect it draws.
BlobCall(pos, cycle, locations) ==
    [ op |-> "blob", pos |-> pos, cycle |-> cycle, num |-> eachFrame % cycle,
      fill |-> << locations.x, locations.y, 60 >>,
      startPt |-> locations.range[1], endPt |-> locations.range[2],
      shape |-> blob(locations.range[1], locations.range[2],
                     eachFrame % cycle, cycle) ]

\* Mutant: the swap made before the slot is drawn.
BlobDrawSwapFirst(pos, cycle) ==
    LET locations == IF SwapDue(eachFrame, cycle)
                     THEN Swapped(positionToLocation[pos])
                     ELSE positionToLocation[pos]
    IN  /\ calls' = Append(calls, BlobCall(pos, cycle, locations))
        /\ positionToLocation' = [ positionToLocation EXCEPT ![pos] = locations ]

\* One pass of the blob loop body for the slot at slotIdx.
BlobDraw(pos, cycle) ==
    LET locations == positionToLocation[pos]
    IN  /\ calls' = Append(calls, BlobCall(pos, cycle, locations))
        /\ positionToLocation' =
              IF SwapDue(eachFrame, cycle)
              THEN [ positionToLocation EXCEPT ![pos] = Swapped(locations) ]
              ELSE positionToLocation

BlobStep ==
    /\ pc = "blobs"
    /\ LET pos == SlotOrder[slotIdx]
           cycle == locationToCycle[pos]
       IN  /\ cycle # 0
           /\ BlobDraw(pos, cycle)
    /\ IF slotIdx < Len(SlotOrder)
       THEN /\ slotIdx' = slotIdx + 1
            /\ pc' = "blobs"
       ELSE /\ slotIdx' = slotIdx
            /\ pc' = StageAfter("blobs")
    /\ eachFrame' = IF pc' = "loop" THEN eachFrame + 1 ELSE eachFrame
    /\ UNCHANGED << cellIdx, rulesCycles, locationToCycle, earlier,
                    pages, saved, configured, start, phaseStart, lastPhase >>

\* (eachFrame % cycle) / cycle with cycle == 0: ZeroDivisionError leaves
\* draw (and the drawing context) before saveImage.
BlobRaise ==
    /\ pc = "blobs"
    /\ locationToCycle[SlotOrder[slotIdx]] = 0
    /\ pc' = "error"
    /\ UNCHANGED << eachFrame, slotIdx, cellIdx, rulesCycles, locationToCycle, earlier,
                    positionToLocation, calls, pages, saved, configured,
                    start, phaseStart, lastPhase >>

\* ------------------------------------------------------------------ dots
\* dots(opacity=1): the nine ovals, row by row.
dots ==
    /\ pc = "dots"
    /\ calls' = calls \o
          [ n \in 1..9 |->
              LET xRatio == GridRatios[ColOf(n - 1)]
                  yRatio == GridRatios[RowOf(n - 1)]
                  pt == coordinates(xRatio, yRatio)
              IN  [ op |-> "oval", fill |-> << xRatio, yRatio, 100 >>,
                    x |-> pt[1] - radius, y |-> pt[2] - radius,
                    w |-> diameter, h |-> diameter ] ]
    /\ pc' = StageAfter("dots")
    /\ eachFrame' = IF pc' = "loop" THEN eachFrame + 1 ELSE eachFrame
    /\ UNCHANGED << slotIdx, cellIdx, rulesCycles, locationToCycle, earlier,
                    positionToLocation, pages, saved, configured, start,
                    phaseStart, lastPhase >>

\* ----------------------------------------------------------------- rules
ruleSide == 80

\* cycleOff *= FPS ; cycleOn *= FPS : seconds to frames, on a local copy.
cycleFrames(seconds) == (seconds * FPS) \div SecDen

\* AnimationManager.spring(box, k / n): the rect call; x and w are
\* rationals over the denominator of the blend ratio.
spring(box, k, n) ==
    IF 2 * k < n
    THEN LET ratio == parametricBlend(2 * k, n)
         IN  [ op |-> "rect", fill |-> "WHITE", half |-> "open", ratio |-> ratio,
               x |-> << box[1] * ratio[2], ratio[2] >>, y |-> box[2],
               w |-> << box[3] * ratio[1], ratio[2] >>, h |-> box[4] ]
    ELSE LET ratio == parametricBlend(2 * k - n, n)
         IN  [ op |-> "rect", fill |-> "WHITE", half |-> "close", ratio |-> ratio,
               x |-> << box[1] * ratio[2] + box[3] * ratio[1], ratio[2] >>,
               y |-> box[2],
               w |-> << box[3] * (ratio[2] - ratio[1]), ratio[2] >>, h |-> box[4] ]

\* ((eachFrame % cycleOn) / (cycleOn - 1)) == 1, for cycleOn >= 2
ToggleOffDue(f, cycleOn) == f % cycleOn = cycleOn - 1

\* Mutant: the off->on test taken at the first frame of the sub-cycle.
ToggleOnDueAtZero(f, cycleOff) == f % cycleOff = 0

\* ((eachFrame % cycleOff) / (cycleOff - 1)) == 1, for cycleOff >= 2
ToggleOnDue(f, cycleOff) == f % cycleOff = cycleOff - 1

\* (eachFrame % cycleOn) / cycleOn raises ZeroDivisionError.
SpringRaises(switch, cycleOn) == switch /\ cycleOn = 0

\* The first toggle test divides by cycleOn - 1 (evaluated only if switch).
FirstTestRaises(switch, cycleOn) == switch /\ cycleOn = 1

\* switch after the first if statement.
AfterFirstIf(switch, f, cycleOn) ==
    IF switch /\ ToggleOffDue(f, cycleOn) THEN ~switch ELSE switch

\* The second toggle test takes eachFrame % cycleOff and divides by
\* cycleOff - 1 (evaluated only if not switch).
SecondTestRaises(switch, cycleOff) == ~switch /\ cycleOff \in {0, 1}

\* switch after the second if statement, which reads the switch the first
\* one may just have changed.
AfterSecondIf(switch, f, cycleOff) ==
    IF ~switch /\ ToggleOnDue(f, cycleOff) THEN ~switch ELSE switch

\* The spring call of a cell whose switch is on.
\* Mutant: the three rows are one list object, so a store in row j shows in
\* every row.
RuleStoreAliased(j, i, switch) ==
    [ r \in 1..3 |-> [ rulesCycles[r] EXCEPT ![i][3] = switch ] ]

\* self.rulesCycles[j][i][2] = switch: the only store into rulesCycles;
\* cycleOff and cycleOn are locals, their products by FPS are not stored.
RuleStore(j, i, switch) == [ rulesCycles EXCEPT ![j][i][3] = switch ]

\* Mutant: the call of spring left out of the if switch block.
RuleDrawNothing(c, cycleOn) == calls

RuleDraw(c, cycleOn) ==
    LET pt == coordinates(GridRatios[ColOf(c)], GridRatios[RowOf(c)])
        shape == spring(<< pt[1] - ruleSide \div 2, pt[2] - ruleSide \div 2,
                           ruleSide, ruleSide >>,
                        eachFrame % cycleOn, cycleOn)
    IN  Append(calls, [ op |-> "spring", cell |-> c, num |-> eachFrame % cycleOn,
                        den |-> cycleOn, shape |-> shape ])

\* One pass of the rule loop body for cell cellIdx, no exception raised.
RuleStep ==
    /\ pc = "rules"
    /\ LET j == RowOf(cellIdx)
           i == ColOf(cellIdx)
           cycleOff == cycleFrames(rulesCycles[j][i][1])
           cycleOn == cycleFrames(rulesCycles[j][i][2])
           switch == rulesCycles[j][i][3]
       IN  /\ ~SpringRaises(switch, cycleOn)
           /\ ~FirstTestRaises(switch, cycleOn)
           /\ ~SecondTestRaises(AfterFirstIf(switch, eachFrame, cycleOn), cycleOff)
           /\ LET sw1 == AfterFirstIf(switch, eachFrame, cycleOn)
                  sw2 == AfterSecondIf(sw1, eachFrame, cycleOff)
              IN  /\ calls' = IF switch THEN RuleDraw(cellIdx, cycleOn) ELSE calls
                  /\ rulesCycles' = RuleStore(j, i, sw2)
                  /\ phaseStart' = IF sw2 # switch
                                   THEN [ phaseStart EXCEPT ![cellIdx] = eachFrame + 1 ]
                                   ELSE phaseStart
                  /\ lastPhase' = IF sw2 # switch /\ phaseStart[cellIdx] >= 0
                                  THEN [ lastPhase EXCEPT ![cellIdx] =
                                           [ on |-> switch,
                                             len |-> eachFrame + 1 - phaseStart[cellIdx] ] ]
                                  ELSE lastPhase
    /\ IF cellIdx < 8
       THEN /\ cellIdx' = cellIdx + 1
            /\ pc' = "rules"
       ELSE /\ cellIdx' = cellIdx
            /\ pc' = StageAfter("rules")
    /\ eachFrame' = IF pc' = "loop" THEN eachFrame + 1 ELSE eachFrame
    /\ UNCHANGED << slotIdx, locationToCycle, earlier, positionToLocation, pages, saved,
                    configured, start >>

\* The rule loop body raising ZeroDivisionError, which leaves draw before
\* saveImage: in the spring argument, in the first test, or in the second
\* test (after the first if statement may have stored a toggle).
RuleRaise ==
    /\ pc = "rules"
    /\ LET j == RowOf(cellIdx)
           i == ColOf(cellIdx)
           cycleOff == cycleFrames(rulesCycles[j][i][1])
           cycleOn == cycleFrames(rulesCycles[j][i][2])
           switch == rulesCycles[j][i][3]
       IN  IF SpringRaises(switch, cycleOn)
           THEN UNCHANGED << calls, rulesCycles >>
           ELSE IF FirstTestRaises(switch, cycleOn)
           THEN /\ calls' = RuleDraw(cellIdx, cycleOn)
                /\ UNCHANGED rulesCycles
           ELSE /\ SecondTestRaises(AfterFirstIf(switch, eachFrame, cycleOn), cycleOff)
                /\ calls' = IF switch THEN RuleDraw(cellIdx, cycleOn) ELSE calls
                /\ rulesCycles' =
                      RuleStore(j, i, AfterFirstIf(switch, eachFrame, cycleOn))
    /\ pc' = "error"
    /\ UNCHANGED << eachFrame, slotIdx, cellIdx, locationToCycle, earlier,
                    positionToLocation, pages, saved, configured, start,
                    phaseStart, lastPhase >>

\* ------------------------------------------------------------- saveImage
\* Mutant: saveImage indented into the frame loop, run after every frame.
saveImageInLoop ==
    /\ pc = "loop"
    /\ eachFrame > 0
    /\ saved < FRAMES
    /\ saved' = saved + 1
    /\ pc' = IF eachFrame = FRAMES THEN "done" ELSE "loop"
    /\ UNCHANGED << eachFrame, slotIdx, cellIdx, rulesCycles, locationToCycle, earlier,
                    positionToLocation, calls, pages, configured, start,
                    phaseStart, lastPhase >>

\* db.saveImage(path), after the frame loop.
saveImage ==
    /\ pc = "loop"
    /\ eachFrame = FRAMES
    /\ saved' = saved + 1
    /\ pc' = "done"
    /\ UNCHANGED << eachFrame, slotIdx, cellIdx, rulesCycles, locationToCycle, earlier,
                    positionToLocation, calls, pages, configured, start,
                    phaseStart, lastPhase >>

\* ------------------------------------------------------------------ main
\* The script's next `am = AnimationManager(...)` and the entry of its
\* am.draw(...): after the draw of one construction has returned, the next
\* configuration of the script is built from fresh literals, and draw opens
\* a new drawing.
AnimationManager ==
    /\ pc = "done"
    /\ Len(earlier) + 1 < Len(MainScript)
    /\ configured = MainScript[Len(earlier) + 1]
    /\ LET cfg == MainScript[Len(earlier) + 2]
       IN  /\ rulesCycles' = cfg.rules
           /\ locationToCycle' = cfg.cycles
           /\ configured' = cfg
           /\ earlier' = Append(earlier, positionToLocation)
           /\ positionToLocation' = defaultPositionToLocation(earlier')
           /\ start' = [ rules |-> cfg.rules, locs |-> positionToLocation' ]
    /\ pc' = "loop"
    /\ eachFrame' = 0
    /\ slotIdx' = 1
    /\ cellIdx' = 0
    /\ calls' = << >>
    /\ pages' = 0
    /\ saved' = 0
    /\ phaseStart' = [ c \in Cells |-> -1 ]
    /\ lastPhase' = [ c \in Cells |-> [ on |-> FALSE, len |-> 0 ] ]

\* --------------------------------------------------------- specification
Next ==
    \/ initFrame
    \/ BlobStep
    \/ BlobRaise
    \/ dots
    \/ RuleStep
    \/ RuleRaise
    \/ saveImage
    \/ AnimationManager

Spec == Init /\ [][Next]_vars

\* draw is one sequential call: it keeps running until it returns or raises.
FairSpec == Spec /\ WF_vars(Next)

\* ================================================================ claims
OffFrames(c) == cycleFrames(rulesCycles[RowOf(c)][ColOf(c)][1])
OnFrames(c) == cycleFrames(rulesCycles[RowOf(c)][ColOf(c)][2])
Switch(c) == rulesCycles[RowOf(c)][ColOf(c)][3]
SwitchAtStart(c) == start.rules[RowOf(c)][ColOf(c)][3]
ConfiguredSwitch(c) == configured.rules[RowOf(c)][ColOf(c)][3]

\* Frame eachFrame - 1 has been processed in full and the next is about to
\* begin: start holds the state at the beginning of frame eachFrame - 1.
FrameEnded == pc = "loop" /\ eachFrame > 0

\* C1 (as claimed): a cell whose switch is on when frame f begins, with on
\* and off durations of at least 2 frames, is off when frame f+1 begins if
\* f mod onFrames = onFrames - 1, and still on otherwise.
C1_OnToOffToggle ==
    FrameEnded =>
        \A c \in Cells :
            (OffFrames(c) >= 2 /\ OnFrames(c) >= 2 /\ SwitchAtStart(c)) =>
                (Switch(c) <=> (eachFrame - 1) % OnFrames(c) # OnFrames(c) - 1)

\* C2 (as claimed): every on-phase entered and left during the run lasts
\* exactly onFrames frames, and every off-phase that follows an on-phase and
\* is left during the run lasts exactly offFrames frames.
C2_NoDrift ==
    \A c \in Cells :
        (OffFrames(c) >= 2 /\ OnFrames(c) >= 2 /\ lastPhase[c].len > 0) =>
            lastPhase[c].len =
                IF lastPhase[c].on THEN OnFrames(c) ELSE OffFrames(c)

\* C3: a cell whose switch is off when frame f begins is on when frame f+1
\* begins iff f mod offFrames = offFrames - 1; a cell of 48 frames off and
\* 24 frames on that starts off is off up to frame 47, on from frame 48 to
\* frame 71, and off again when frame 72 begins.
C3_OffToOnToggle ==
    /\ FrameEnded =>
          \A c \in Cells :
              (OffFrames(c) >= 2 /\ ~SwitchAtStart(c)) =>
                  (Switch(c) <=> (eachFrame - 1) % OffFrames(c) = OffFrames(c) - 1)
    /\ (pc = "loop" /\ eachFrame <= 72) =>
          \A c \in Cells :
              (OffFrames(c) = 48 /\ OnFrames(c) = 24 /\ ~ConfiguredSwitch(c)) =>
                  (Switch(c) <=> (48 <= eachFrame /\ eachFrame <= 71))

\* C3 witness: the 48/24 cell has just been turned on by frame 47.
C3_Witness ==
    /\ pc = "loop" /\ eachFrame = 48
    /\ OffFrames(0) = 48 /\ OnFrames(0) = 24 /\ ~ConfiguredSwitch(0)
    /\ ~SwitchAtStart(0) /\ Switch(0)

\* The frame whose page calls holds.
CurrentPage == IF pc \in {"loop", "done"} THEN eachFrame - 1 ELSE eachFrame

\* Slot number n has been drawn and advanced in frame CurrentPage.
SlotDone(n) ==
    \/ pc \in {"dots", "rules"}
    \/ pc = "blobs" /\ n < slotIdx
    \/ FrameEnded

RangeSwapped(a, b) ==
    b.range = a.nextRange /\ b.nextRange = a.range /\ b.range # a.range
RangeKept(a, b) == b.range = a.range /\ b.nextRange = a.nextRange
YSwapped(a, b) == b.y = a.nextY /\ b.nextY = a.y /\ b.y # a.y
YKept(a, b) == b.y = a.y /\ b.nextY = a.nextY

\* C4: for a slot of cycle length C > 1, frame f exchanges range and
\* nextRange (once) iff f mod C = 0 and leaves them alone otherwise, and it
\* exchanges y and nextY in exactly the same frames; nothing is exchanged
\* before the slot's turn in the frame.
C4_SwapTiming ==
    \A n \in 1..Len(SlotOrder) :
        LET pos == SlotOrder[n]
            C == locationToCycle[pos]
            a == start.locs[pos]
            b == positionToLocation[pos]
        IN  (C > 1 /\ pages > 0 /\ pc # "error") =>
                IF SlotDone(n)
                THEN /\ RangeSwapped(a, b) <=> CurrentPage % C = 0
                     /\ RangeKept(a, b) <=> CurrentPage % C # 0
                     /\ YSwapped(a, b) <=> RangeSwapped(a, b)
                     /\ YKept(a, b) <=> RangeKept(a, b)
                ELSE b = a

\* C4 witness: the second swap of a slot of cycle 24, in frame 24.
C4_Witness ==
    /\ pc = "dots" /\ eachFrame = 24
    /\ locationToCycle["rgt"] = 24
    /\ RangeSwapped(start.locs["rgt"], positionToLocation["rgt"])
    /\ YSwapped(start.locs["rgt"], positionToLocation["rgt"])

BlobCalls == { n \in DOMAIN calls : calls[n].op = "blob" }
RangeOf(e) == << e.startPt, e.endPt >>

\* C5 (as claimed): no frame up to the second swap (frames 0 .. C) calls
\* blob with the configured initial range.
C5_InitialRangeNeverDrawn ==
    \A n \in BlobCalls :
        CurrentPage <= calls[n].cycle =>
            RangeOf(calls[n]) # positionToLocationFactory[calls[n].pos].range

\* C5 (amended): frame 0 calls blob with the configured initial range, which
\* is swapped away only after that call; frames 1 .. C call it with the
\* configured nextRange, and frame C + 1 with the initial range again.
C5_InitialRangeDrawnOnce ==
    \A n \in BlobCalls :
        LET e == calls[n]
            init == positionToLocationFactory[e.pos]
        IN  /\ CurrentPage = 0 => RangeOf(e) = init.range
            /\ (1 <= CurrentPage /\ CurrentPage <= e.cycle) =>
                  RangeOf(e) = init.nextRange
            /\ CurrentPage = e.cycle + 1 => RangeOf(e) = init.range

\* C5 witness: frame 0 has drawn every slot with its initial range and the
\* ranges have been swapped since.
C5_Witness ==
    /\ pc = "dots" /\ eachFrame = 0
    /\ Cardinality(BlobCalls) = Len(SlotOrder)
    /\ \A n \in BlobCalls :
          /\ RangeOf(calls[n]) = positionToLocationFactory[calls[n].pos].range
          /\ positionToLocation[calls[n].pos].range
                = positionToLocationFactory[calls[n].pos].nextRange

\* Every blob cycle is at least one frame and every rule duration at least
\* two frames.
ValidConfig ==
    /\ \A pos \in Slots : locationToCycle[pos] >= 1
    /\ \A c \in Cells : OffFrames(c) >= 2 /\ OnFrames(c) >= 2

OpCount(op) == Cardinality({ n \in DOMAIN calls : calls[n].op = op })

\* The call protocol of draw, as a state predicate: the n-th initFrame is
\* that of frame index n - 1, at most 288 frames are begun, saveImage has
\* been called iff draw has returned, and then 288 frames were begun and the
\* last one was processed in full.
C6_ProtocolState ==
    /\ pages = IF pc \in {"loop", "done"} THEN eachFrame ELSE eachFrame + 1
    /\ pages <= 288
    /\ saved = IF pc = "done" THEN 1 ELSE 0
    /\ pc = "done" =>
          /\ pages = 288 /\ eachFrame = 288
          /\ OpCount("blob") = 3 /\ OpCount("oval") = 9

\* C6: one call of draw begins exactly 288 frames, with the frame indices
\* 0, 1, ..., 287 in increasing order and one initFrame per index, then
\* calls saveImage exactly once, after the last frame has been processed in
\* full; no frame is begun after the export; and with a valid configuration
\* the run always reaches the export.
C6_TimelineProtocol ==
    /\ []C6_ProtocolState
    /\ [][(pages' # pages /\ earlier' = earlier)
              => (saved = 0 /\ pages' = pages + 1 /\ eachFrame = pages)]_vars
    /\ [][(saved' # saved /\ earlier' = earlier)
              => (saved' = saved + 1 /\ pages = 288 /\ pc = "loop")]_vars
    /\ (ValidConfig ~> (pc = "done"))

\* C6 witness: a run with a valid configuration has exported its 288 frames.
C6_Witness ==
    ValidConfig /\ pc = "done" /\ pages = 288 /\ saved = 1 /\ eachFrame = FRAMES

\* Number of calls of kind op among the first n - 1 calls of the page.
Before(n, op) == Cardinality({ m \in 1..(n - 1) : calls[m].op = op })

C8_FailFast ==
    pc = "error" => pages = 0 /\ calls = << >>

\* C9 (as claimed): when a run of one of the three shipped configurations
\* has ended, every blob slot's entry and every rule switch have the values
\* they had before frame 0.
C9_Loops ==
    (pc = "done" /\ configured \in ShippedConfigs) =>
        /\ positionToLocation = positionToLocationFactory
        /\ \A c \in Cells : Switch(c) = ConfiguredSwitch(c)

\* C9 (amended): when a run of one of the three shipped configurations has
\* ended, every blob slot of cycle 24, 48 or 72 has the entry it had before
\* frame 0, every slot of cycle 96 is left swapped, and every rule switch is
\* on (all were off before frame 0).
C9_EndState ==
    (pc = "done" /\ configured \in ShippedConfigs) =>
        /\ \A pos \in Slots :
              /\ locationToCycle[pos] \in {24, 48, 72, 96}
              /\ locationToCycle[pos] \in {24, 48, 72} =>
                    positionToLocation[pos] = positionToLocationFactory[pos]
              /\ locationToCycle[pos] = 96 =>
                    /\ positionToLocation[pos].y = 25
                    /\ positionToLocation[pos].nextY = 75
                    /\ positionToLocation[pos].range =
                          positionToLocationFactory[pos].nextRange
                    /\ positionToLocation[pos].nextRange =
                          positionToLocationFactory[pos].range
        /\ \A c \in Cells : Switch(c) /\ ~ConfiguredSwitch(c)

\* C9 witness: the end of a shipped run that has a slot of cycle 96.
C9_Witness ==
    /\ pc = "done" /\ configured \in ShippedConfigs
    /\ locationToCycle["mid"] = 96
    /\ positionToLocation["mid"] # positionToLocationFactory["mid"]
    /\ positionToLocation["lft"] = positionToLocationFactory["lft"]

\* The rational a (a pair <<numerator, denominator>>) is the integer n.
RatIs(a, n) == a[1] = n * a[2]

\* C10: a blob call of frame f and cycle C takes the growth branch (lower
\* edge fixed, ratio parametricBlend(2 * completion)) iff 2 * (f mod C) <= C
\* and the shrink branch (ratio parametricBlend(2 * (completion - 0.5)))
\* otherwise; with C = 24 frame 12 is the last of the growth branch and
\* frame 13 the first of the shrink branch; at completion 0.5 both branches
\* give the same shape, the full capsule from startPt to endPt.
C10_PhaseSplit ==
    \A n \in BlobCalls :
        LET e == calls[n]
            C == e.cycle
            k == CurrentPage % C
            grown == blobGrow(e.startPt, e.endPt, k, C)
            shrunk == blobShrink(e.startPt, e.endPt, k, C)
        IN  /\ e.shape.branch = "grow" <=> 2 * k <= C
            /\ e.shape.branch = "shrink" <=> 2 * k > C
            /\ e.shape.branch = "grow" =>
                  /\ e.shape.ratio =
                        << 4 * k * k, 2 * (4 * k * k - 2 * k * C) + C * C >>
                  /\ RatIs(e.shape.y, e.startPt[2] - radius)
            /\ e.shape.branch = "shrink" =>
                  e.shape.ratio =
                      << (2 * k - C) * (2 * k - C),
                         2 * ((2 * k - C) * (2 * k - C) - (2 * k - C) * C) + C * C >>
            /\ (C = 24 /\ CurrentPage = 12) =>
                  e.shape.branch = "grow" /\ RatIs(e.shape.ratio, 1)
            /\ (C = 24 /\ CurrentPage = 13) => e.shape.branch = "shrink"
            /\ 2 * k = C =>
                  /\ grown.y = shrunk.y /\ grown.h = shrunk.h
                  /\ grown.x = shrunk.x /\ grown.w = shrunk.w
                  /\ RatIs(e.shape.y, e.startPt[2] - radius)
                  /\ RatIs(e.shape.h, diameter + e.endPt[2] - e.startPt[2])

\* C10 witness: frame 12 of a slot of cycle 24 has been drawn, at
\* completion 0.5, by the growth branch.
C10_Witness ==
    /\ pc = "dots" /\ eachFrame = 12
    /\ \E n \in BlobCalls :
          /\ calls[n].cycle = 24 /\ calls[n].num = 12
          /\ calls[n].shape.branch = "grow"

\* a/b <= c/d for a, c >= 0 and b, d > 0, by continued fractions (no
\* products, which would leave the machine integers).
RECURSIVE RatLe(_, _, _, _)
RatLe(a, b, c, d) ==
    IF a \div b # c \div d THEN a \div b < c \div d
    ELSE IF a % b = 0 THEN TRUE
    ELSE IF c % d = 0 THEN FALSE
    ELSE RatLe(d, c % d, b, a % b)

\* The grid sizes in use: the blob cycles and the rule on-durations.
GridSizes ==
    { locationToCycle[pos] : pos \in Slots } \cup { OnFrames(c) : c \in Cells }

\* The blend ratios of the shapes drawn on the current page.
DrawnRatios ==
    { calls[n].shape.ratio : n \in { m \in DOMAIN calls : calls[m].op \in {"blob", "spring"} } }

\* C11: on the grid t = k/n, 0 <= k <= n, of every cycle length n in use,
\* parametricBlend(0) = 0, parametricBlend(1) = 1, parametricBlend(1/2) =
\* 1/2, 0 <= parametricBlend(t) <= 1, and parametricBlend is non-decreasing;
\* every ratio a shape is drawn with lies in [0, 1].
C11_BlendCurve ==
    /\ \A n \in GridSizes : n >= 1 =>
          /\ parametricBlend(0, n)[1] = 0
          /\ parametricBlend(n, n)[1] = parametricBlend(n, n)[2]
          /\ 2 * parametricBlend(1, 2)[1] = parametricBlend(1, 2)[2]
          /\ n % 2 = 0 =>
                2 * parametricBlend(n \div 2, n)[1] = parametricBlend(n \div 2, n)[2]
          /\ \A k \in 0..n :
                LET v == parametricBlend(k, n)
                IN  /\ v[2] > 0 /\ 0 <= v[1] /\ v[1] <= v[2]
                    /\ k < n =>
                          LET w == parametricBlend(k + 1, n)
                          IN  RatLe(v[1], v[2], w[1], w[2])
    /\ \A v \in DrawnRatios : v[2] > 0 /\ 0 <= v[1] /\ v[1] <= v[2]

\* C11 witness: frame 6 of a slot of cycle 24 is drawn with
\* parametricBlend(1/2) = 1/2.
C11_Witness ==
    /\ pc = "dots" /\ eachFrame = 6
    /\ \E n \in BlobCalls :
          /\ calls[n].cycle = 24
          /\ calls[n].shape.ratio = parametricBlend(12, 24)
          /\ 2 * calls[n].shape.ratio[1] = calls[n].shape.ratio[2]

\* The spring calls made for cell c on the current page.
SpringCalls(c) ==
    { n \in DOMAIN calls : calls[n].op = "spring" /\ calls[n].cell = c }

\* C12 (as claimed): in every on-phase entered during the run, the frame
\* drawn m frames after the phase began has wipe phase m / onFrames (0 in
\* the first drawn frame, one step more in each following frame), and the
\* last drawn frame of the phase has wipe phase (onFrames - 1) / onFrames.
C12_WipeAligned ==
    pc # "error" =>
        \A c \in Cells : \A n \in SpringCalls(c) :
            /\ calls[n].den = OnFrames(c)
            /\ (0 <= phaseStart[c] /\ phaseStart[c] <= CurrentPage) =>
                  calls[n].num = CurrentPage - phaseStart[c]
            /\ (phaseStart[c] = CurrentPage + 1 /\ lastPhase[c].on /\ lastPhase[c].len > 0) =>
                  /\ calls[n].num = lastPhase[c].len - 1
                  /\ calls[n].num = OnFrames(c) - 1

\* Cell c has had its turn in the rule loop of frame CurrentPage.
CellDone(c) ==
    \/ pc = "rules" /\ c < cellIdx
    \/ FrameEnded
    \/ pc = "done"

\* C13: in every frame a cell's square is drawn (once, at the cell's turn)
\* iff the cell's switch was on when the frame began: the frame that turns
\* the cell off still draws it, the frame that turns it on draws nothing
\* for it, and nothing is drawn for a cell that is off.
C13_RenderBeforeToggle ==
    pc # "error" =>
        \A c \in Cells :
            /\ CellDone(c) =>
                  Cardinality(SpringCalls(c)) = IF SwitchAtStart(c) THEN 1 ELSE 0
            /\ ~CellDone(c) => SpringCalls(c) = {}
            /\ \A n \in SpringCalls(c) :
                  /\ calls[n].shape.op = "rect" /\ calls[n].shape.fill = "WHITE"
                  /\ calls[n].num = CurrentPage % OnFrames(c)

\* C13 witness: a frame has ended in which one cell was drawn and turned
\* off and another was turned on without being drawn.
C13_Witness ==
    /\ FrameEnded
    /\ \E c \in Cells :
          SwitchAtStart(c) /\ ~Switch(c) /\ Cardinality(SpringCalls(c)) = 1
    /\ \E c \in Cells :
          ~SwitchAtStart(c) /\ Switch(c) /\ SpringCalls(c) = {}

\* C14: every instance built without a positionToLocation argument starts
\* its run with every blob slot as the factory makes it (y 0.75, nextY
\* 0.25, range from the middle to the top margin, nextRange from the bottom
\* margin to the middle), whatever the earlier instances did to theirs, and
\* each of the script's three runs starts with every rule switch off.
C14_FreshInstance ==
    (pc = "loop" /\ eachFrame = 0) =>
        /\ \A pos \in Slots :
              LET loc == positionToLocation[pos]
                  px == CASE pos = "lft" -> 264 [] pos = "mid" -> 600 [] OTHER -> 936
              IN  /\ loc.y = 75 /\ loc.nextY = 25
                  /\ loc.range = << << px, 600 >>, << px, 936 >> >>
                  /\ loc.nextRange = << << px, 264 >>, << px, 600 >> >>
        /\ configured = MainScript[Len(earlier) + 1] =>
              /\ rulesCycles = MainScript[Len(earlier) + 1].rules
              /\ \A c \in Cells : ~Switch(c)

\* C14 witness: the third run of the script starts from the factory's state
\* although the second instance was left with its mid slot swapped.
C14_Witness ==
    /\ pc = "loop" /\ eachFrame = 0
    /\ Len(earlier) = 2
    /\ earlier[2]["mid"].y = 25 /\ earlier[2]["mid"].range[1][2] = 264
    /\ positionToLocation["mid"].y = 75
    /\ positionToLocation["mid"].range[1][2] = 600
    /\ \A c \in Cells : ~Switch(c)

\* C15: every blob call made by draw (endPt is never below startPt) draws a
\* rounded rectangle of width diameter and height at least diameter, whose
\* lower edge is at startPt.y - radius while it grows and whose upper edge
\* is at endPt.y + radius while it shrinks, inside [startPt.y - radius,
\* endPt.y + radius]; at completion 0 it is the circle of that diameter
\* centred on startPt; the height does not decrease from one completion
\* k/C to the next in the growth half and does not increase in the
\* shrink half.
C15_BlobFootprint ==
    \A n \in BlobCalls :
        LET e == calls[n]
            s == e.shape
            den == s.h[2]
            low == (e.startPt[2] - radius) * den
            high == (e.endPt[2] + radius) * den
        IN  e.endPt[2] >= e.startPt[2] =>
              /\ den > 0 /\ s.y[2] = den
              /\ s.x = e.startPt[1] - radius /\ s.w = diameter
              /\ s.h[1] >= diameter * den
              /\ s.branch = "grow" => s.y[1] = low
              /\ s.branch = "shrink" => s.y[1] + s.h[1] = high
              /\ low <= s.y[1] /\ s.y[1] + s.h[1] <= high
              /\ e.num = 0 =>
                    /\ s.y[1] = low /\ s.h[1] = diameter * den
                    /\ s.x + radius = e.startPt[1]
                    /\ s.y[1] + radius * den = e.startPt[2] * den
              /\ e.num + 1 < e.cycle =>
                    LET t == blob(e.startPt, e.endPt, e.num + 1, e.cycle)
                    IN  /\ (s.branch = "grow" /\ t.branch = "grow") =>
                              RatLe(s.h[1], s.h[2], t.h[1], t.h[2])
                        /\ (s.branch = "shrink" /\ t.branch = "shrink") =>
                              RatLe(t.h[1], t.h[2], s.h[1], s.h[2])

\* C15 witness: a page with a blob part-way through its growth and another
\* part-way through its shrinking, lifted off its start point.
C15_Witness ==
    /\ pc = "dots"
    /\ \E n \in BlobCalls :
          /\ calls[n].shape.branch = "grow"
          /\ calls[n].shape.h[1] > diameter * calls[n].shape.h[2]
          /\ calls[n].shape.h[1] < (diameter + 336) * calls[n].shape.h[2]
    /\ \E n \in BlobCalls :
          /\ calls[n].shape.branch = "shrink"
          /\ calls[n].shape.y[1] > (calls[n].startPt[2] - radius) * calls[n].shape.y[2]
          /\ calls[n].shape.h[1] > diameter * calls[n].shape.h[2]

\* The two states of a slot whose points have abscissa px: drawn between
\* the middle and the top margin with the colour of y = 0.75, or between
\* the bottom margin and the middle with the colour of y = 0.25.
UpperPair(px) == [ y |-> 75, range |-> << << px, 600 >>, << px, 936 >> >> ]
LowerPair(px) == [ y |-> 25, range |-> << << px, 264 >>, << px, 600 >> >> ]

\* C16: in every state of every run, each slot's (y, range) is one of the
\* two pairs above and its (nextY, nextRange) is the other; y is the
\* ratio of the vertical midpoint of range, so every blob is filled with
\* the colour sampled at the middle of the range it is drawn on; and the
\* slot's x is the one the factory gave it.
C16_TwoStateBlob ==
    /\ \A pos \in Slots :
          LET loc == positionToLocation[pos]
              px == CASE pos = "lft" -> 264 [] pos = "mid" -> 600 [] OTHER -> 936
              now == [ y |-> loc.y, range |-> loc.range ]
              nxt == [ y |-> loc.nextY, range |-> loc.nextRange ]
          IN  /\ \/ now = UpperPair(px) /\ nxt = LowerPair(px)
                 \/ now = LowerPair(px) /\ nxt = UpperPair(px)
              /\ 2 * coordinates(loc.x, loc.y)[2] = loc.range[1][2] + loc.range[2][2]
              /\ coordinates(loc.x, loc.y)[1] = px
              /\ loc.x = CASE pos = "lft" -> 0 [] pos = "mid" -> 50 [] OTHER -> 100
    /\ \A n \in BlobCalls :
          LET e == calls[n]
              pt == coordinates(e.fill[1], e.fill[2])
          IN  /\ [ y |-> e.fill[2], range |-> << e.startPt, e.endPt >> ]
                    \in { UpperPair(pt[1]), LowerPair(pt[1]) }
              /\ 2 * pt[2] = e.startPt[2] + e.endPt[2]

\* C16 witness: a page on which one blob was drawn on the lower range with
\* the colour of y = 0.25 while another slot is on the upper range.
C16_Witness ==
    /\ pc = "dots"
    /\ \E n \in BlobCalls : calls[n].fill[2] = 25 /\ calls[n].startPt[2] = 264
    /\ \E pos \in Slots :
          positionToLocation[pos].y = 75 /\ positionToLocation[pos].nextY = 25

ConfiguredCell(c) == configured.rules[RowOf(c)][ColOf(c)]
StoredCell(c) == rulesCycles[RowOf(c)][ColOf(c)]

\* The stored durations of every cell are the configured ones.
C17_StoredDurations ==
    /\ DOMAIN rulesCycles = 1..3
    /\ \A c \in Cells :
          /\ DOMAIN rulesCycles[RowOf(c)] = 1..3
          /\ Len(StoredCell(c)) = 3
          /\ StoredCell(c)[1] = ConfiguredCell(c)[1]
          /\ StoredCell(c)[2] = ConfiguredCell(c)[2]
          /\ OffFrames(c) = cycleFrames(ConfiguredCell(c)[1])
          /\ OnFrames(c) = cycleFrames(ConfiguredCell(c)[2])

\* C17: within a run, no step changes anything in rulesCycles but the
\* switch of the cell whose turn it is in the rule loop; the stored off and
\* on seconds stay as configured, so offFrames and onFrames are the same in
\* every frame; and no step changes a blob slot's entry but that of the
\* slot whose turn it is in the blob loop, nor the cycle lengths.
C17_FrameEffects ==
    /\ []C17_StoredDurations
    /\ [][earlier' = earlier =>
            /\ \A c \in Cells :
                  /\ StoredCell(c)'[1] = StoredCell(c)[1]
                  /\ StoredCell(c)'[2] = StoredCell(c)[2]
                  /\ StoredCell(c)' # StoredCell(c) => (pc = "rules" /\ c = cellIdx)
            /\ \A pos \in Slots :
                  positionToLocation'[pos] # positionToLocation[pos] =>
                      (pc = "blobs" /\ pos = SlotOrder[slotIdx])
            /\ locationToCycle' = locationToCycle
            /\ configured' = configured]_vars

\* C17 witness: in a frame that swapped one slot and left another as it
\* was, the cell that just had its turn was toggled, the cells after it are
\* as they were when the frame began, and all durations are as configured.
C17_Witness ==
    /\ pc = "rules" /\ cellIdx > 0
    /\ Switch(cellIdx - 1) # SwitchAtStart(cellIdx - 1)
    /\ \A c \in Cells : c >= cellIdx => StoredCell(c) = start.rules[RowOf(c)][ColOf(c)]
    /\ C17_StoredDurations
    /\ \E pos \in Slots : positionToLocation[pos] # start.locs[pos]
    /\ \E pos \in Slots : positionToLocation[pos] = start.locs[pos]

====
